---- MODULE Spec2Model ----
(***************************************************************************)
(* MySqlCache (src/src/mysql-cache.js): an in-process cache that loads the *)
(* full result of one query into a Map key -> list of records, reloads it  *)
(* on a timer, optionally saves a JSON snapshot to a file and pre-warms    *)
(* from that file at startup.                                              *)
(*                                                                         *)
(* Asynchronous tasks (refresh cycles, the snapshot load, file writes)     *)
(* interleave at their await points; every action below is the code that   *)
(* runs between two await points.                                          *)
(***************************************************************************)
EXTENDS Integers, Sequences, FiniteSets, TLC

(* ------------------------------ bounds --------------------------------- *)
\* refresh cycles started in one run (the startup cycle and the timer ticks)
MaxCycles == 2
\* rows in the table the query reads
MaxRows == 2
\* rows in the tables the merge rule is checked on
MaxMergeRows == 3

(* ------------------------------- values -------------------------------- *)
Keys == {1, 2}

\* A raw row {id, text}.  The text also selects what a caller-supplied
\* mapper returns for the row (see CustomParseDataRow).
Row(id, text) == [id |-> id, text |-> text]

\* A record stored in the Index: the row, the property a custom mapper
\* wrapped it in ("" when unwrapped) and the class of the object.
Rec(row, w) == [id |-> row.id, text |-> row.text, w |-> w, cls |-> "Object"]

\* The rows a writer has put in the table, oldest first.
Table == << Row(1, "a"), Row(1, "b"), Row(1, "c"), Row(2, "x") >>

\* The table content a run may meet: at most MaxRows consecutive rows of
\* Table (older rows deleted, newer ones not yet inserted).
Datasets ==
    { s \in { SubSeq(Table, i, j) : i \in 1..(Len(Table) + 1), j \in 0..Len(Table) } :
        Len(s) <= MaxRows }

\* The sequences of at most n elements of S.
RECURSIVE SeqsUpTo(_, _)
SeqsUpTo(S, n) ==
    IF n = 0 THEN { << >> }
    ELSE LET shorter == SeqsUpTo(S, n - 1)
         IN  shorter \cup { Append(s, x) : s \in { t \in shorter : Len(t) = n - 1 }, x \in S }

\* The tables the merge is checked on: every sequence of at most
\* MaxMergeRows rows, of either key, that a mapper accepts.
MergeDatasets ==
    SeqsUpTo({ Row(k, t) : k \in Keys, t \in {"a", "b", "c"} }, MaxMergeRows)

\* A mapper output [key, value]: isArr tells whether value is an array;
\* v holds its elements (a scalar value is the one element of v).
Pair(k, isArr, v) == [k |-> k, isArr |-> isArr, v |-> v]

Item(rec) == [rec EXCEPT !.cls = "Item"]

(* ------------------------------ Row Mapper ----------------------------- *)
\* parseDataRow(row): [row[this.keyFieldName], row]
parseDataRow(row) == Pair(row.id, FALSE, << Rec(row, "") >>)

\* A caller-supplied parseDataRow override: one [key, value] per row, the
\* value a record or an array of records.  Its result is chosen by the row:
\* "a" a single record, "b" an array of three, "c" an empty array; it throws
\* on "x".
CustomParseDataRow(row) ==
    CASE row.text = "a" -> Pair(row.id, FALSE, << Rec(row, "t1") >>)
      [] row.text = "b" -> Pair(row.id, TRUE,
                                << Rec(row, "t1"), Rec(row, "t2"), Rec(row, "t3") >>)
      [] OTHER          -> Pair(row.id, TRUE, << >>)

OtherKey(k) == IF k = 1 THEN 2 ELSE 1

\* A caller-supplied parseDataMultiRow: an array of [key, record] pairs per
\* row: "a" one pair, "b" three pairs, the second under another key, "c"
\* none; it throws on "x".
CustomParseDataMultiRow(row) ==
    CASE row.text = "a" -> << Pair(row.id, FALSE, << Rec(row, "t1") >>) >>
      [] row.text = "b" -> << Pair(row.id, FALSE, << Rec(row, "t1") >>),
                              Pair(OtherKey(row.id), FALSE, << Rec(row, "t2") >>),
                              Pair(row.id, FALSE, << Rec(row, "t3") >>) >>
      [] OTHER          -> << >>

\* Does the configured mapper throw on one of the rows?
MapperThrows(rows, opts) ==
    /\ opts.parseDataMultiRow \/ opts.parseDataRow = "custom"
    /\ \E i \in 1..Len(rows) : rows[i].text = "x"

\* loadFromDatabase, lines 92-102: parseDataMultiRow is used when it is
\* defined, parseDataRow otherwise.
RECURSIVE MapItems(_, _)
MapItems(rows, opts) ==
    IF rows = << >> THEN << >>
    ELSE LET row == Head(rows)
             out == IF opts.parseDataMultiRow
                        THEN CustomParseDataMultiRow(row)
                    ELSE IF opts.parseDataRow = "custom"
                        THEN << CustomParseDataRow(row) >>
                    ELSE << parseDataRow(row) >>
         IN  out \o MapItems(Tail(rows), opts)

(* ---------------------- Map (insertion ordered) ------------------------ *)
\* A Map is a sequence of [k, isArr, v] entries with distinct keys, in
\* insertion order.
MapHas(m, k) == \E i \in 1..Len(m) : m[i].k = k

MapGet(m, k) == m[CHOOSE i \in 1..Len(m) : m[i].k = k]

MapSet(m, k, isArr, v) ==
    IF MapHas(m, k)
        THEN [i \in 1..Len(m) |-> IF m[i].k = k THEN Pair(k, isArr, v) ELSE m[i]]
        ELSE Append(m, Pair(k, isArr, v))

\* new Map(iterable of pairs)
RECURSIVE NewMap(_)
NewMap(pairs) ==
    IF pairs = << >> THEN << >>
    ELSE LET front == NewMap(SubSeq(pairs, 1, Len(pairs) - 1))
             last  == pairs[Len(pairs)]
         IN  MapSet(front, last.k, last.isArr, last.v)

(* ------------------------------- merge --------------------------------- *)
\* MergeItem with set in place of push: a later value for a key replaces the
\* earlier ones.
MergeItem_Overwrites(cacheMap, mapItem, hasItem) ==
    MapSet(cacheMap, mapItem.k, TRUE,
           IF hasItem THEN [j \in 1..Len(mapItem.v) |-> Item(mapItem.v[j])]
           ELSE mapItem.v)

\* loadFromDatabase, lines 104-137, for one mapItem.
MergeItem(cacheMap, mapItem, hasItem) ==
    LET dataKey     == mapItem.k
        isValueArray == mapItem.isArr
        dataValue   == IF hasItem
                           THEN [j \in 1..Len(mapItem.v) |-> Item(mapItem.v[j])]
                           ELSE mapItem.v
    IN  IF ~isValueArray
            THEN IF ~MapHas(cacheMap, dataKey)
                     THEN MapSet(cacheMap, dataKey, TRUE, << dataValue[1] >>)
                     ELSE MapSet(cacheMap, dataKey, TRUE,
                                 Append(MapGet(cacheMap, dataKey).v, dataValue[1]))
            ELSE IF ~MapHas(cacheMap, dataKey)
                     THEN MapSet(cacheMap, dataKey, TRUE, dataValue)
                     ELSE MapSet(cacheMap, dataKey, TRUE,
                                 MapGet(cacheMap, dataKey).v \o dataValue)

RECURSIVE MergeFrom(_, _, _)
MergeFrom(cacheMap, mapItems, hasItem) ==
    IF mapItems = << >> THEN cacheMap
    ELSE MergeFrom(MergeItem(cacheMap, Head(mapItems), hasItem), Tail(mapItems), hasItem)

\* BuildCacheMap stopped after the first mapItem: an Index made visible
\* before the merge loop has finished.
BuildCacheMap_FirstItemOnly(rows, opts) ==
    MergeFrom(<< >>, SubSeq(MapItems(rows, opts), 1, 1), opts.itemClass)

\* The cacheMap loadFromDatabase builds from the rows of one query result.
BuildCacheMap(rows, opts) == MergeFrom(<< >>, MapItems(rows, opts), opts.itemClass)

(* ------------------------------- JSON ---------------------------------- *)
\* JSON.stringify drops the class of an object; JSON.parse builds plain ones.
Plain(rec) == [rec EXCEPT !.cls = "Object"]

PlainPairs(pairs) ==
    [i \in 1..Len(pairs) |->
        Pair(pairs[i].k, pairs[i].isArr,
             [j \in 1..Len(pairs[i].v) |-> Plain(pairs[i].v[j])])]

\* What the snapshot file holds: kind is
\*   "absent"   no file (readFile fails with ENOENT)
\*   "garbage"  bytes JSON.parse rejects
\*   "null"     the JSON text null, or no bytes at all (line 205 makes
\*              mapData null for both)
\*   "scalar"   JSON that is not iterable (a number, an object), or an
\*              array whose elements are not [key, value] arrays
\*   "pairs"    a JSON array of [key, value] pairs (pairs holds them; a
\*              value that is not an array has isArr FALSE)
File(kind, pairs) == [kind |-> kind, pairs |-> pairs]

\* saveToFile, line 192: JSON.stringify([...this.data])
JsonStringify(index) == File("pairs", PlainPairs(index))

NoFile == File("absent", << >>)

\* A record left in the snapshot by an earlier run of the program.
OldRec == Rec(Row(1, "old"), "")

\* What the snapshot file may hold when the cache is constructed.
InitialFiles ==
    { NoFile, File("garbage", << >>), File("null", << >>), File("scalar", << >>),
      File("pairs", << Pair(1, TRUE, << OldRec >>) >>),
      File("pairs", << Pair(1, TRUE, << >>) >>),
      File("pairs", << Pair(1, FALSE, << OldRec >>) >>) }

(* ------------------------------- state --------------------------------- *)
VARIABLES
    options,      \* the options the cache was constructed with
    db,           \* the rows the query returns when issued now
    file,         \* the content of the file at cacheFilePath
    data,         \* this.data, the visible Index
    lastUpdate,   \* this.lastUpdate: the time of the last swap, named by the
                  \* task that made it (0: not set yet)
    emitted,      \* the events the last step emitted, in order
    ready,        \* this.loadDataPromise is resolved
    reloadTimer,  \* the interval timer is armed
    cycle,        \* the refresh cycles: position, query result, pending JSON
    fileLoad,     \* loadCacheFromFile: its position or outcome
    errorObserver,\* a listener for 'error' is attached
    constructed,  \* "no": new MySqlCache(options) is still to be evaluated
                  \* (options holds its argument); "yes": it returned;
                  \* "threw": it threw
    rejected,     \* the promise of some task was rejected (nothing handles it)
    returned      \* what the last read returned

vars == << options, db, file, data, lastUpdate, emitted,
           ready, reloadTimer, cycle, fileLoad,
           errorObserver, constructed, rejected, returned >>

Cycles == 1..MaxCycles

\* The name of the snapshot load as a task (the refresh cycles are 1, 2, ...).
FileTask == -1

\* A cycle is "idle" (not started), "query" (its query is in flight; rows is
\* the result the query will give), "writing" (fs.writeFile of json is in
\* flight) or "done" (loadFromDatabaseAndSaveToFile returned).
\* before is the Index that was visible when the cycle started, kept while
\* the cycle is in flight.
IdleCycle == [st |-> "idle", rows |-> << >>, json |-> NoFile, before |-> << >>]

DoneCycle == [st |-> "done", rows |-> << >>, json |-> NoFile, before |-> << >>]

StartedCycle(rows, index) ==
    [st |-> "query", rows |-> rows, json |-> NoFile, before |-> index]

\* No read has returned yet.
NoRead == [op |-> "none", key |-> 0, threw |-> FALSE, kind |-> "none", items |-> << >>]

\* getDefaults / applyOptions: the options that shape the cache's behaviour.
\* (When both mappers are supplied parseDataMultiRow is the one used, so
\* that configuration behaves as parseDataMultiRow alone and is left out.)
OptionSets ==
    { o \in [ shouldSaveToFile  : BOOLEAN,
              itemClass         : BOOLEAN,
              parseDataRow      : {"default", "custom"},
              parseDataMultiRow : BOOLEAN ] :
        ~(o.parseDataMultiRow /\ o.parseDataRow = "custom") }

\* constructor: data is an empty Map; startCache starts the first refresh
\* cycle (its query is issued), arms the timer, starts loadCacheFromFile
\* when shouldSaveToFile, and creates loadDataPromise.  The options are
\* drawn from opts, the table from tables, the snapshot file from files.
Construct(opts, tables, files) ==
    /\ options \in opts
    /\ db \in tables
    /\ file \in (IF options.shouldSaveToFile THEN files ELSE { NoFile })
    /\ data = << >>
    /\ lastUpdate = 0
    /\ emitted = << >>
    /\ ready = FALSE
    /\ reloadTimer = TRUE
    /\ cycle = [c \in Cycles |-> IF c = 1 THEN StartedCycle(db, << >>) ELSE IdleCycle]
    /\ fileLoad = IF options.shouldSaveToFile THEN "reading" ELSE "off"
    /\ constructed = "yes"
    /\ rejected = FALSE
    /\ returned = NoRead

\* The cache as the tests construct it (createMySqlCache): every
\* configuration, with a listener for 'error' attached.
Init ==
    /\ errorObserver = TRUE
    /\ Construct(OptionSets, Datasets, InitialFiles)

(* --------------------------- notifications ----------------------------- *)
\* this.emit('error', err) in the catch of loadFromDatabaseAndSaveToFile
\* (line 75) and of loadCacheFromFile (line 214): with no listener for
\* 'error', emit throws err; thrown from the catch block, it rejects the
\* promise of the async function, which nothing awaits.
Escapes(events) ==
    /\ ~errorObserver
    /\ \E i \in 1..Len(events) : events[i] = "error"

(* ------------------------------ setData -------------------------------- *)
\* setData, lines 164-168: lastUpdate is set and 'update' is emitted; the
\* listener startCache registered resolves loadDataPromise.
\* now: the time of the call, named by the task that makes it (a task calls
\* setData at most once); after: the events the step emits after it.
Swap(index, now, after) ==
    /\ data' = index
    /\ lastUpdate' = now
    /\ ready' = TRUE
    /\ emitted' = << "update" >> \o after
    /\ rejected' = (rejected \/ Escapes(after))

\* A step that does not reach setData's assignment emits events only.
NoSwap(events) ==
    /\ UNCHANGED << data, lastUpdate, ready >>
    /\ emitted' = events
    /\ rejected' = (rejected \/ Escapes(events))

\* setData(mapData) for an array of pairs, lines 147-161: every element of
\* every array value goes through itemClass, then new Map(mapData).  A value
\* that is no array has no length: the loop over it does nothing.
SetDataPairs(pairs, hasItem) ==
    NewMap([i \in 1..Len(pairs) |->
              IF hasItem /\ pairs[i].isArr
                  THEN Pair(pairs[i].k, TRUE,
                            [j \in 1..Len(pairs[i].v) |-> Item(pairs[i].v[j])])
                  ELSE pairs[i]])

(* --------------------------- refresh cycle ----------------------------- *)
\* TimerTick of a timer that destroy() does not stop.
TimerTick_IgnoresCancel ==
    /\ \E c \in Cycles :
        /\ cycle[c].st = "idle"
        /\ \A b \in Cycles : b < c => cycle[b].st # "idle"
        /\ cycle' = [cycle EXCEPT ![c] = StartedCycle(db, data)]
    /\ emitted' = << >>
    /\ UNCHANGED << errorObserver, constructed, returned, rejected >>
    /\ UNCHANGED << options, db, file, data, lastUpdate, ready,
                    reloadTimer, fileLoad >>

\* The interval callback of startCache, line 52: a tick starts a cycle,
\* whether or not an earlier one is still in flight.  The query is issued
\* at once; its result is the table content at that moment.
TimerTick ==
    /\ reloadTimer
    /\ \E c \in Cycles :
        /\ cycle[c].st = "idle"
        /\ \A b \in Cycles : b < c => cycle[b].st # "idle"
        /\ cycle' = [cycle EXCEPT ![c] = StartedCycle(db, data)]
    /\ emitted' = << >>
    /\ UNCHANGED << errorObserver, constructed, returned, rejected >>
    /\ UNCHANGED << options, db, file, data, lastUpdate, ready,
                    reloadTimer, fileLoad >>

\* saveToFile up to its await, line 192: this.data is serialized and the
\* write of the JSON is started.
saveToFile(c, index) ==
    [st |-> "writing", rows |-> << >>, json |-> JsonStringify(index),
     before |-> cycle[c].before]

\* loadFromDatabaseAndSaveToFile after loadFromDatabase returned, lines
\* 71-73, index being this.data: the continuation runs in the same turn of
\* the event loop as the swap.
AfterLoad(c, index) ==
    IF options.shouldSaveToFile THEN saveToFile(c, index) ELSE DoneCycle

\* The query of cycle c fails: queryDatabase rejects, loadFromDatabase
\* throws, the catch of loadFromDatabaseAndSaveToFile emits 'error'.
QueryFails(c) ==
    /\ cycle[c].st = "query"
    /\ cycle' = [cycle EXCEPT ![c] = DoneCycle]
    /\ NoSwap(<< "error" >>)
    /\ UNCHANGED << errorObserver, constructed, returned >>
    /\ UNCHANGED << options, db, file, reloadTimer, fileLoad >>

\* The query of cycle c calls back with no error and null (or no) rows:
\* queryDatabase evaluates rows.length for its debug line (line 182), which
\* throws a TypeError; the test for null of line 82 is never reached, and
\* the catch of loadFromDatabaseAndSaveToFile emits 'error'.
queryDatabaseNull(c) ==
    /\ cycle[c].st = "query"
    /\ cycle' = [cycle EXCEPT ![c] = DoneCycle]
    /\ NoSwap(<< "error" >>)
    /\ UNCHANGED << errorObserver, constructed, returned >>
    /\ UNCHANGED << options, db, file, reloadTimer, fileLoad >>

\* loadFromDatabase filling this.data in place: the Map is cleared before the
\* rows are mapped, so a mapper that throws leaves it empty.
loadFromDatabase_ClearsFirst(c) ==
    /\ cycle[c].st = "query"
    /\ LET rows == cycle[c].rows
       IN  IF Len(rows) = 0
               THEN /\ Swap(<< >>, c, << >>)
                    /\ cycle' = [cycle EXCEPT ![c] = AfterLoad(c, << >>)]
           ELSE IF MapperThrows(rows, options)
               THEN /\ data' = << >>
                    /\ UNCHANGED << lastUpdate, ready >>
                    /\ emitted' = << "error" >>
                    /\ rejected' = (rejected \/ Escapes(<< "error" >>))
                    /\ cycle' = [cycle EXCEPT ![c] = DoneCycle]
           ELSE /\ Swap(BuildCacheMap(rows, options), c, << >>)
                /\ cycle' = [cycle EXCEPT ![c] = AfterLoad(c, BuildCacheMap(rows, options))]
    /\ UNCHANGED << errorObserver, constructed, returned >>
    /\ UNCHANGED << options, db, file, reloadTimer, fileLoad >>

\* loadFromDatabase dropping the result of a query that answers after
\* destroy().
loadFromDatabase_DropsAfterDestroy(c) ==
    /\ cycle[c].st = "query"
    /\ LET rows == cycle[c].rows
       IN  IF ~reloadTimer
               THEN /\ NoSwap(<< >>)
                    /\ cycle' = [cycle EXCEPT ![c] = DoneCycle]
           ELSE IF Len(rows) = 0
               THEN /\ Swap(<< >>, c, << >>)
                    /\ cycle' = [cycle EXCEPT ![c] = AfterLoad(c, << >>)]
           ELSE IF MapperThrows(rows, options)
               THEN /\ NoSwap(<< "error" >>)
                    /\ cycle' = [cycle EXCEPT ![c] = DoneCycle]
           ELSE /\ Swap(BuildCacheMap(rows, options), c, << >>)
                /\ cycle' = [cycle EXCEPT ![c] = AfterLoad(c, BuildCacheMap(rows, options))]
    /\ UNCHANGED << errorObserver, constructed, returned >>
    /\ UNCHANGED << options, db, file, reloadTimer, fileLoad >>

\* The query of cycle c answers with an array of rows: loadFromDatabase from
\* line 82 to its end, then the rest of loadFromDatabaseAndSaveToFile up to
\* the await of the file write.
loadFromDatabase(c) ==
    /\ cycle[c].st = "query"
    /\ LET rows == cycle[c].rows
       IN  IF Len(rows) = 0
               THEN /\ Swap(<< >>, c, << >>)
                    /\ cycle' = [cycle EXCEPT ![c] = AfterLoad(c, << >>)]
           ELSE IF MapperThrows(rows, options)
               THEN /\ NoSwap(<< "error" >>)
                    /\ cycle' = [cycle EXCEPT ![c] = DoneCycle]
           ELSE /\ Swap(BuildCacheMap(rows, options), c, << >>)
                /\ cycle' = [cycle EXCEPT ![c] = AfterLoad(c, BuildCacheMap(rows, options))]
    /\ UNCHANGED << errorObserver, constructed, returned >>
    /\ UNCHANGED << options, db, file, reloadTimer, fileLoad >>

\* fs.writeFile of cycle c completes.
writeFileDone(c) ==
    /\ cycle[c].st = "writing"
    /\ file' = cycle[c].json
    /\ cycle' = [cycle EXCEPT ![c] = DoneCycle]
    /\ emitted' = << >>
    /\ UNCHANGED << errorObserver, constructed, returned, rejected >>
    /\ UNCHANGED << options, db, data, lastUpdate, ready,
                    reloadTimer, fileLoad >>

\* writeFileFails undoing the swap of its cycle: the Index from before the
\* cycle is put back.
writeFileFails_RollsBack(c) ==
    /\ cycle[c].st = "writing"
    /\ cycle' = [cycle EXCEPT ![c] = DoneCycle]
    /\ data' = cycle[c].before
    /\ UNCHANGED << lastUpdate, ready >>
    /\ emitted' = << "error" >>
    /\ rejected' = (rejected \/ Escapes(<< "error" >>))
    /\ UNCHANGED << errorObserver, constructed, returned >>
    /\ UNCHANGED << options, db, file, reloadTimer, fileLoad >>

\* fs.writeFile of cycle c fails: saveToFile throws, 'error' is emitted.
writeFileFails(c) ==
    /\ cycle[c].st = "writing"
    /\ cycle' = [cycle EXCEPT ![c] = DoneCycle]
    /\ NoSwap(<< "error" >>)
    /\ UNCHANGED << errorObserver, constructed, returned >>
    /\ UNCHANGED << options, db, file, reloadTimer, fileLoad >>

(* --------------------------- snapshot load ----------------------------- *)
\* loadCacheFromFile reporting a missing file like any other read failure.
loadCacheFromFile_ReportsMissing ==
    /\ fileLoad = "reading"
    /\ LET kind == file.kind
       IN  CASE kind = "absent" ->
                  /\ fileLoad' = "failed"
                  /\ NoSwap(<< "error" >>)
             [] kind = "garbage" ->
                  /\ fileLoad' = "failed"
                  /\ NoSwap(<< "error" >>)
             [] kind = "null" ->
                  IF options.itemClass
                      THEN /\ fileLoad' = "failed"
                           /\ NoSwap(<< "error" >>)
                      ELSE /\ fileLoad' = "loadedThenFailed"
                           /\ Swap(<< >>, FileTask, << "error" >>)
             [] kind = "scalar" ->
                  /\ fileLoad' = "failed"
                  /\ NoSwap(<< "error" >>)
             [] OTHER ->
                  /\ fileLoad' = "loaded"
                  /\ Swap(SetDataPairs(file.pairs, options.itemClass), FileTask, << >>)
    /\ UNCHANGED << errorObserver, constructed, returned >>
    /\ UNCHANGED << options, db, file, reloadTimer, cycle >>

\* loadCacheFromFile re-arming itself: after a snapshot was loaded the file
\* is read again.
loadCacheFromFile_Repeats ==
    /\ fileLoad = "reading"
    /\ LET kind == file.kind
       IN  CASE kind = "absent" ->
                  /\ fileLoad' = "missing"
                  /\ NoSwap(<< >>)
             [] kind = "garbage" ->
                  /\ fileLoad' = "failed"
                  /\ NoSwap(<< "error" >>)
             [] kind = "null" ->
                  IF options.itemClass
                      THEN /\ fileLoad' = "failed"
                           /\ NoSwap(<< "error" >>)
                      ELSE /\ fileLoad' = "loadedThenFailed"
                           /\ Swap(<< >>, FileTask, << "error" >>)
             [] kind = "scalar" ->
                  /\ fileLoad' = "failed"
                  /\ NoSwap(<< "error" >>)
             [] OTHER ->
                  /\ fileLoad' = "reading"
                  /\ Swap(SetDataPairs(file.pairs, options.itemClass), FileTask, << >>)
    /\ UNCHANGED << errorObserver, constructed, returned >>
    /\ UNCHANGED << options, db, file, reloadTimer, cycle >>

\* loadCacheFromFile from the completion of fs.readFile to its end.
loadCacheFromFile ==
    /\ fileLoad = "reading"
    /\ LET kind == file.kind
       IN  CASE kind = "absent" ->
                  \* ENOENT: only a debug line
                  /\ fileLoad' = "missing"
                  /\ NoSwap(<< >>)
             [] kind = "garbage" ->
                  \* JSON.parse throws
                  /\ fileLoad' = "failed"
                  /\ NoSwap(<< "error" >>)
             [] kind = "null" ->
                  \* mapData is null.  With an itemClass the for-of over
                  \* null throws; without one new Map(null) is an empty Map,
                  \* which is swapped in, and mapData.length then throws.
                  IF options.itemClass
                      THEN /\ fileLoad' = "failed"
                           /\ NoSwap(<< "error" >>)
                      ELSE /\ fileLoad' = "loadedThenFailed"
                           /\ Swap(<< >>, FileTask, << "error" >>)
             [] kind = "scalar" ->
                  \* not iterable, or elements that are no entries: a
                  \* TypeError before this.data is assigned
                  /\ fileLoad' = "failed"
                  /\ NoSwap(<< "error" >>)
             [] OTHER ->
                  /\ fileLoad' = "loaded"
                  /\ Swap(SetDataPairs(file.pairs, options.itemClass), FileTask, << >>)
    /\ UNCHANGED << errorObserver, constructed, returned >>
    /\ UNCHANGED << options, db, file, reloadTimer, cycle >>

(* ------------------------------ teardown ------------------------------- *)
\* destroy(): clearInterval(this.reloadTimer)
destroy ==
    /\ constructed = "yes"
    /\ reloadTimer' = FALSE
    /\ emitted' = << >>
    /\ UNCHANGED << errorObserver, constructed, returned, rejected >>
    /\ UNCHANGED << options, db, file, data, lastUpdate, ready,
                    cycle, fileLoad >>

Next ==
    \/ TimerTick
    \/ \E c \in Cycles : queryDatabaseNull(c)
    \/ \E c \in Cycles : QueryFails(c)
    \/ \E c \in Cycles : loadFromDatabase(c)
    \/ \E c \in Cycles : writeFileDone(c)
    \/ \E c \in Cycles : writeFileFails(c)
    \/ loadCacheFromFile
    \/ destroy

Spec == Init /\ [][Next]_vars

\* The refresh cycles of a cache that does not save to the file, over the
\* tables of MergeDatasets.
InitMerge ==
    /\ errorObserver = TRUE
    /\ Construct({ o \in OptionSets : ~o.shouldSaveToFile }, MergeDatasets, { NoFile })

NextMerge ==
    \/ TimerTick
    \/ \E c \in Cycles : loadFromDatabase(c)

SpecMerge == InitMerge /\ [][NextMerge]_vars

(* --------------------------- error observer ---------------------------- *)
\* cache.on('error', listener), as createMySqlCache of the tests does after
\* the constructor returned.
onError ==
    /\ constructed = "yes"
    /\ ~errorObserver
    /\ errorObserver' = TRUE
    /\ emitted' = << >>
    /\ UNCHANGED << options, db, file, data, lastUpdate, ready, reloadTimer,
                    cycle, fileLoad, constructed, rejected, returned >>

\* The cache constructed with no listener for 'error'; one may be attached
\* at any later moment.
InitObserver ==
    /\ errorObserver = FALSE
    /\ Construct({ o \in OptionSets : ~o.parseDataMultiRow }, Datasets, InitialFiles)

NextObserver ==
    \/ onError
    \/ Next

SpecObserver == InitObserver /\ [][NextObserver]_vars

(* ---------------------------- construction ----------------------------- *)
\* The argument of new MySqlCache(options).  An option is "unset" (the
\* object has no such property), "null" (the property is there and holds
\* null or undefined) or given a value.
OptionKeys ==
    << "sql", "mysqlQueryable", "cacheFilePath", "name", "keyFieldName",
       "reloadFromMySqlInterval", "shouldSaveToFile", "itemClass" >>

GivenOptionSets ==
    [ sql                     : {"unset", "null", "set"},
      mysqlQueryable          : {"unset", "null", "set"},
      cacheFilePath           : {"unset"},
      name                    : {"unset"},
      keyFieldName            : {"unset"},
      reloadFromMySqlInterval : {"unset"},
      shouldSaveToFile        : {"unset", "null", "true", "false"},
      itemClass               : {"unset", "null", "set"} ]

\* getDefaults(): sql and mysqlQueryable are undefined, the others have a
\* value; itemClass is no property of the defaults.
getDefaults ==
    [ sql |-> "null", mysqlQueryable |-> "null", cacheFilePath |-> "set",
      name |-> "set", keyFieldName |-> "set", reloadFromMySqlInterval |-> "set",
      shouldSaveToFile |-> "false", itemClass |-> "unset" ]

\* Object.assign(target, source): every property of source, whatever it
\* holds, overwrites the one of target.
ObjectAssign(target, source) ==
    [k \in DOMAIN target |-> IF source[k] # "unset" THEN source[k] ELSE target[k]]

\* applyOptions, lines 24-28: the first property, in property order, that
\* is == null ("" when there is none): the option the Error names.
MissingOption(optionsWithDefaults) ==
    LET missing == { i \in 1..Len(OptionKeys) :
                        optionsWithDefaults[OptionKeys[i]] = "null" }
    IN  IF missing = { } THEN ""
        ELSE OptionKeys[CHOOSE i \in missing : \A j \in missing : i <= j]

\* The options as the rest of the class reads them (line 30): the
\* persistence flag by its truth, itemClass by being defined.
AppliedOptions(optionsWithDefaults) ==
    [ shouldSaveToFile  |-> optionsWithDefaults.shouldSaveToFile = "true",
      itemClass         |-> optionsWithDefaults.itemClass = "set",
      parseDataRow      |-> "default",
      parseDataMultiRow |-> FALSE ]

\* new MySqlCache(options), lines 12-19: applyOptions throws on a missing
\* option, before startCache; otherwise startCache issues the first query,
\* arms the timer and, when shouldSaveToFile, starts loadCacheFromFile.
constructor ==
    /\ constructed = "no"
    /\ LET optionsWithDefaults == ObjectAssign(getDefaults, options)
       IN  IF MissingOption(optionsWithDefaults) # ""
               THEN /\ constructed' = "threw"
                    /\ UNCHANGED << options, reloadTimer, cycle, fileLoad >>
               ELSE /\ constructed' = "yes"
                    /\ options' = AppliedOptions(optionsWithDefaults)
                    /\ reloadTimer' = TRUE
                    /\ cycle' = [c \in Cycles |->
                                    IF c = 1 THEN StartedCycle(db, << >>) ELSE IdleCycle]
                    /\ fileLoad' = IF options'.shouldSaveToFile THEN "reading" ELSE "off"
    /\ emitted' = << >>
    /\ UNCHANGED << db, file, data, lastUpdate, ready, errorObserver,
                    rejected, returned >>

\* Before new MySqlCache(options) is evaluated: nothing is in flight.  The
\* snapshot file matters only to a cache that will read it.
InitNew ==
    /\ constructed = "no"
    /\ options \in GivenOptionSets
    /\ db \in Datasets
    /\ file \in (IF options.shouldSaveToFile = "true" THEN InitialFiles ELSE { NoFile })
    /\ data = << >>
    /\ lastUpdate = 0
    /\ emitted = << >>
    /\ ready = FALSE
    /\ reloadTimer = FALSE
    /\ cycle = [c \in Cycles |-> IdleCycle]
    /\ fileLoad = "off"
    /\ errorObserver = FALSE
    /\ rejected = FALSE
    /\ returned = NoRead

NextNew ==
    \/ constructor
    \/ NextObserver

SpecNew == InitNew /\ [][NextNew]_vars

(* ------------------------ a changing database -------------------------- *)
\* A writer changes the table between two queries: the oldest row is
\* deleted, or a row is inserted after the last one.
DbChange ==
    /\ constructed = "yes"
    /\ \E d \in Datasets :
          /\ d # db
          /\ \/ db # << >> /\ d = Tail(db)
             \/ \E i \in 1..Len(Table) : d = Append(db, Table[i])
          /\ db' = d
    /\ emitted' = << >>
    /\ UNCHANGED << options, file, data, lastUpdate, ready, reloadTimer, cycle,
                    fileLoad, errorObserver, constructed, rejected, returned >>

\* The mysqlQueryable answers the queries of cycles a and b in one turn of
\* the event loop, a first (a queryable that batches or coalesces its
\* callbacks).  The promise chains of the two cycles then advance in
\* lockstep: both run loadFromDatabase from line 82 to its end, a then b,
\* and only after that both continue in loadFromDatabaseAndSaveToFile, lines
\* 71-76, a then b; saveToFile (line 192) serializes this.data as it is then.
loadFromDatabasePair(a, b) ==
    /\ a # b
    /\ cycle[a].st = "query"
    /\ cycle[b].st = "query"
    /\ LET okA    == ~MapperThrows(cycle[a].rows, options)
           okB    == ~MapperThrows(cycle[b].rows, options)
           final  == IF okB THEN BuildCacheMap(cycle[b].rows, options)
                     ELSE IF okA THEN BuildCacheMap(cycle[a].rows, options)
                     ELSE data
           events == (IF okA THEN << "update" >> ELSE << >>)
                        \o (IF okB THEN << "update" >> ELSE << >>)
                        \o (IF okA THEN << >> ELSE << "error" >>)
                        \o (IF okB THEN << >> ELSE << "error" >>)
       IN  /\ data' = final
           /\ lastUpdate' = IF okB THEN b ELSE IF okA THEN a ELSE lastUpdate
           /\ ready' = (ready \/ okA \/ okB)
           /\ emitted' = events
           /\ rejected' = (rejected \/ Escapes(events))
           /\ cycle' = [cycle EXCEPT
                          ![a] = IF okA THEN AfterLoad(a, final) ELSE DoneCycle,
                          ![b] = IF okB THEN AfterLoad(b, final) ELSE DoneCycle]
    /\ UNCHANGED << errorObserver, constructed, returned >>
    /\ UNCHANGED << options, db, file, reloadTimer, fileLoad >>

\* The cache without itemClass over a table that changes while it runs.
InitDb ==
    /\ errorObserver = TRUE
    /\ Construct({ o \in OptionSets : ~o.itemClass /\ ~o.parseDataMultiRow },
                 Datasets,
                 { NoFile, File("pairs", << Pair(1, TRUE, << OldRec >>) >>) })

NextDb ==
    \/ DbChange
    \/ \E a, b \in Cycles : loadFromDatabasePair(a, b)
    \/ Next

SpecDb == InitDb /\ [][NextDb]_vars

(* ----------------------- unserializable records ------------------------ *)
\* The query of cycle c answers with rows whose records JSON.stringify
\* rejects (a cyclic structure, a BigInt): loadFromDatabase swaps its Index
\* in, then saveToFile throws at line 192, before any write is started, and
\* the catch of loadFromDatabaseAndSaveToFile emits 'error'.
saveToFileThrows(c) ==
    /\ cycle[c].st = "query"
    /\ options.shouldSaveToFile
    /\ Len(cycle[c].rows) > 0
    /\ ~MapperThrows(cycle[c].rows, options)
    /\ \E i \in 1..Len(BuildCacheMap(cycle[c].rows, options)) :
          Len(BuildCacheMap(cycle[c].rows, options)[i].v) > 0
    /\ Swap(BuildCacheMap(cycle[c].rows, options), c, << "error" >>)
    /\ cycle' = [cycle EXCEPT ![c] = DoneCycle]
    /\ UNCHANGED << errorObserver, constructed, returned >>
    /\ UNCHANGED << options, db, file, reloadTimer, fileLoad >>

\* The cache with persistence enabled.
InitSave ==
    /\ errorObserver = TRUE
    /\ Construct({ o \in OptionSets : o.shouldSaveToFile }, Datasets, InitialFiles)

NextSave ==
    \/ \E c \in Cycles : saveToFileThrows(c)
    \/ Next

SpecSave == InitSave /\ [][NextSave]_vars

(* ------------------------- an unending timer --------------------------- *)
\* A later tick of the interval of line 52, when every cycle of Cycles has
\* been started: the new cycle takes the name of one that has returned.
TimerTickLater ==
    /\ reloadTimer
    /\ \A c \in Cycles : cycle[c].st # "idle"
    /\ \E c \in Cycles :
        /\ cycle[c].st = "done"
        /\ cycle' = [cycle EXCEPT ![c] = StartedCycle(db, data)]
    /\ emitted' = << >>
    /\ UNCHANGED << errorObserver, constructed, returned, rejected >>
    /\ UNCHANGED << options, db, file, data, lastUpdate, ready,
                    reloadTimer, fileLoad >>

\* The persisting cache with the default mapper, which never throws, and
\* no itemClass, over a table of at most one row; the snapshot file is
\* missing, holds the JSON null, or holds a record.
InitLive ==
    /\ errorObserver = TRUE
    /\ Construct({ o \in OptionSets : /\ o.shouldSaveToFile
                                      /\ ~o.itemClass
                                      /\ o.parseDataRow = "default"
                                      /\ ~o.parseDataMultiRow },
                 { d \in Datasets : Len(d) <= 1 },
                 { NoFile, File("null", << >>),
                   File("pairs", << Pair(1, TRUE, << OldRec >>) >>) })

\* The cache whose timer is never cancelled: every step but destroy().
NextLive ==
    \/ TimerTick
    \/ TimerTickLater
    \/ \E c \in Cycles : queryDatabaseNull(c)
    \/ \E c \in Cycles : QueryFails(c)
    \/ \E c \in Cycles : loadFromDatabase(c)
    \/ \E c \in Cycles : writeFileDone(c)
    \/ \E c \in Cycles : writeFileFails(c)
    \/ loadCacheFromFile

\* The interval fires for as long as it is armed, a file write that was
\* started ends, and a query that is retried again and again in the end
\* answers.
SpecLive ==
    /\ InitLive
    /\ [][NextLive]_vars
    /\ WF_vars(TimerTick \/ TimerTickLater)
    /\ WF_vars(\E c \in Cycles : writeFileDone(c) \/ writeFileFails(c))
    /\ SF_vars(\E c \in Cycles : loadFromDatabase(c))

(* ------------------------------- reads --------------------------------- *)
\* cloneArray: JSON.parse(JSON.stringify(items))
cloneArray(items) == [i \in 1..Len(items) |-> Plain(items[i])]

RECURSIVE Concat(_)
Concat(entries) ==
    IF entries = << >> THEN << >> ELSE Head(entries).v \o Concat(Tail(entries))

\* getAll(): the records of every key, in key order; spreading a value that
\* is not an array throws a TypeError.
getAll ==
    IF \E i \in 1..Len(data) : ~data[i].isArr
        THEN [threw |-> TRUE, items |-> << >>]
        ELSE [threw |-> FALSE, items |-> cloneArray(Concat(data))]

\* getValues(key), lines 223-231.  A value that is no array (an object put
\* there by a snapshot) has no length: it passes the test of line 226 and
\* the one of cloneArray, and comes back as a copy of the object.
getValues(key) ==
    IF ~MapHas(data, key)
        THEN [op |-> "getValues", key |-> key, threw |-> FALSE,
              kind |-> "array", items |-> << >>]
    ELSE IF MapGet(data, key).isArr
        THEN [op |-> "getValues", key |-> key, threw |-> FALSE,
              kind |-> "array", items |-> cloneArray(MapGet(data, key).v)]
    ELSE [op |-> "getValues", key |-> key, threw |-> FALSE,
          kind |-> "object", items |-> cloneArray(MapGet(data, key).v)]

\* getFirstValue(key), lines 233-241.  For a value that is no array,
\* itemValues[0] is undefined, which the JSON round trip of cloneArray turns
\* into null.
getFirstValue(key) ==
    IF \/ ~MapHas(data, key)
       \/ ~MapGet(data, key).isArr
       \/ Len(MapGet(data, key).v) = 0
        THEN [op |-> "getFirstValue", key |-> key, threw |-> FALSE,
              kind |-> "null", items |-> << >>]
        ELSE [op |-> "getFirstValue", key |-> key, threw |-> FALSE,
              kind |-> "object",
              items |-> cloneArray(<< MapGet(data, key).v[1] >>)]

\* The keys the reads are called with: the keys of the table and one that
\* no row has.
ReadKeys == Keys \cup { 0 }

\* A collaborator calls getValues(key) / getFirstValue(key) / getAll().
callGetValues(key) ==
    /\ constructed = "yes"
    /\ returned' = getValues(key)
    /\ emitted' = << >>
    /\ UNCHANGED << options, db, file, data, lastUpdate, ready, reloadTimer,
                    cycle, fileLoad, errorObserver, constructed, rejected >>

callGetFirstValue(key) ==
    /\ constructed = "yes"
    /\ returned' = getFirstValue(key)
    /\ emitted' = << >>
    /\ UNCHANGED << options, db, file, data, lastUpdate, ready, reloadTimer,
                    cycle, fileLoad, errorObserver, constructed, rejected >>

callGetAll ==
    /\ constructed = "yes"
    /\ returned' = [op |-> "getAll", key |-> 0, threw |-> getAll.threw,
                    kind |-> "array", items |-> getAll.items]
    /\ emitted' = << >>
    /\ UNCHANGED << options, db, file, data, lastUpdate, ready, reloadTimer,
                    cycle, fileLoad, errorObserver, constructed, rejected >>

\* The cache with the default mapper, read at any moment of its run.
InitRead ==
    /\ errorObserver = TRUE
    /\ Construct({ o \in OptionSets : o.parseDataRow = "default" /\ ~o.parseDataMultiRow },
                 Datasets, InitialFiles)

NextRead ==
    \/ \E key \in ReadKeys : callGetValues(key)
    \/ \E key \in ReadKeys : callGetFirstValue(key)
    \/ callGetAll
    \/ Next

SpecRead == InitRead /\ [][NextRead]_vars

(* --------------------------- claim vocabulary -------------------------- *)
\* The records the mapper produced for key k, in mapper output order.
RECURSIVE RecordsFor(_, _)
RecordsFor(k, mapItems) ==
    IF mapItems = << >> THEN << >>
    ELSE (IF Head(mapItems).k = k THEN Head(mapItems).v ELSE << >>)
            \o RecordsFor(k, Tail(mapItems))

\* The same records as they are stored: through itemClass when there is one.
StoredFor(k, mapItems, opts) ==
    LET recs == RecordsFor(k, mapItems)
    IN  [i \in 1..Len(recs) |-> IF opts.itemClass THEN Item(recs[i]) ELSE recs[i]]

\* The records index holds for key k (none when the key is absent).
ValuesOf(index, k) ==
    IF MapHas(index, k) THEN MapGet(index, k).v ELSE << >>

\* index is the complete Index of the rows of one query result: the keys are
\* distinct, they are the keys the mapper produced, and each holds all the
\* records produced for it.
IsIndexOf(index, rows, opts) ==
    LET mapItems == MapItems(rows, opts)
    IN  /\ \A i, j \in 1..Len(index) : index[i].k = index[j].k => i = j
        /\ \A i \in 1..Len(index) :
              /\ index[i].isArr
              /\ \E m \in 1..Len(mapItems) : mapItems[m].k = index[i].k
        /\ \A m \in 1..Len(mapItems) : MapHas(index, mapItems[m].k)
        /\ \A k \in Keys : ValuesOf(index, k) = StoredFor(k, mapItems, opts)

\* index is the complete content of a snapshot: every key of the snapshot,
\* once, with the value the snapshot gives it last.
IsIndexOfSnapshot(index, pairs, opts) ==
    /\ \A i, j \in 1..Len(index) : index[i].k = index[j].k => i = j
    /\ \A i \in 1..Len(index) : \E m \in 1..Len(pairs) : pairs[m].k = index[i].k
    /\ \A m \in 1..Len(pairs) :
          /\ MapHas(index, pairs[m].k)
          /\ (\A n \in (m + 1)..Len(pairs) : pairs[n].k # pairs[m].k)
                => /\ MapGet(index, pairs[m].k).isArr = pairs[m].isArr
                   /\ Len(MapGet(index, pairs[m].k).v) = Len(pairs[m].v)
                   /\ \A j \in 1..Len(pairs[m].v) :
                         Plain(MapGet(index, pairs[m].k).v[j]) = Plain(pairs[m].v[j])

\* The step completes the query of cycle c / the write of cycle c / the
\* snapshot load.
QueryEnds(c) == cycle[c].st = "query" /\ cycle'[c].st # "query"
WriteEnds(c) == cycle[c].st = "writing" /\ cycle'[c].st # "writing"
FileLoadEnds == fileLoad = "reading" /\ fileLoad' # "reading"

\* The number of records the mapper produces from rows.
RecordCount(rows, opts) == Len(Concat(MapItems(rows, opts)))

(* ------------------------------- claims -------------------------------- *)

\* A snapshot file that is present and is not a JSON array of
\* [key, [record, ...]] pairs.
InvalidSnapshot(f) ==
    \/ f.kind \in {"garbage", "null", "scalar"}
    \/ f.kind = "pairs" /\ \E i \in 1..Len(f.pairs) : ~f.pairs[i].isArr

\* C1: ensureCacheReady() resolves only after a database-driven swap: the
\* snapshot pre-warm, when it swaps a well-formed snapshot in before any
\* database load has completed, does not resolve loadDataPromise.
C1_PrewarmDoesNotResolveReady ==
    [][(FileLoadEnds /\ ~InvalidSnapshot(file)) => ready' = ready]_vars

\* C2: once a database-built Index is visible, the end of the snapshot load
\* does not replace it: the visible Index stays as it was.
C2_SnapshotNeverOverwritesDatabase ==
    [][(lastUpdate \in Cycles /\ FileLoadEnds) => data' = data]_vars

\* The step ends cycle c with a failure: the cycle returns having emitted
\* 'error'.
CycleFails(c) ==
    /\ QueryEnds(c) \/ WriteEnds(c)
    /\ cycle'[c].st = "done"
    /\ \E i \in 1..Len(emitted') : emitted'[i] = "error"

C4_AllLengthMatchesQuery ==
    (ready /\ ~MapperThrows(db, options))
        => (~getAll.threw /\ Len(getAll.items) = RecordCount(db, options))

\* C5: the visible Index is the initial empty Map until a task swaps, and
\* it changes only by the single assignment of a completing task: to the
\* complete Index of all mapped rows of that cycle's query result, or to the
\* complete content of the snapshot that was read (an empty Map when the
\* snapshot is the JSON null).
C5_OnlyCompleteIndexes ==
    /\ [](lastUpdate = 0 => data = << >>)
    /\ [][data' # data =>
            \/ \E c \in Cycles :
                  /\ QueryEnds(c)
                  /\ lastUpdate' = c
                  /\ IsIndexOf(data', cycle[c].rows, options)
            \/ /\ FileLoadEnds
               /\ lastUpdate' = FileTask
               /\ IF file.kind = "pairs"
                      THEN IsIndexOfSnapshot(data', file.pairs, options)
                      ELSE data' = << >>]_vars

\* The visible Index was built by a refresh cycle from more than one mapped
\* record of one key.
C5_Witness ==
    /\ lastUpdate \in Cycles
    /\ \E i \in 1..Len(data) : Len(data[i].v) >= 2

\* C6: the visible Index maps no key to an empty sequence.
C6_NoEmptySequence ==
    \A i \in 1..Len(data) : Len(data[i].v) >= 1

\* C7: after a successful refresh, every key holds exactly the records the
\* mapper produced for it, scalar values and the elements of sequence
\* values alike, concatenated in mapper output order over all rows.
C7_MergeRule ==
    lastUpdate \in Cycles =>
        \A k \in Keys : ValuesOf(data, k) = StoredFor(k, MapItems(db, options), options)

\* Three rows sharing a key, three records each: nine records under it.
C7_Witness ==
    /\ lastUpdate \in Cycles
    /\ \E k \in Keys : Len(ValuesOf(data, k)) = 9

\* C8: destroy() changes nothing but the timer; once the timer is cancelled
\* it stays cancelled and no cycle that has not started ever starts; a
\* destroy() of a cancelled timer changes nothing at all.
C8_DestroyCancelsTimerOnly ==
    [][/\ (reloadTimer /\ ~reloadTimer')
            => UNCHANGED << data, lastUpdate, ready, file, fileLoad, cycle, options, db >>
       /\ ~reloadTimer
            => /\ ~reloadTimer'
               /\ \A c \in Cycles : cycle[c].st = "idle" => cycle'[c].st = "idle"
       /\ (destroy /\ ~reloadTimer)
            => UNCHANGED << reloadTimer, data, lastUpdate, ready, file, fileLoad, cycle,
                            options, db >>]_vars

\* The timer is cancelled while a cycle is still to start, and the Index
\* holds records.
C8_Witness ==
    /\ ~reloadTimer
    /\ \E c \in Cycles : cycle[c].st = "idle"
    /\ \E i \in 1..Len(data) : Len(data[i].v) >= 1

\* C9: destroy() changes no task in flight; a pending file write or snapshot
\* read stays able to complete once the timer is cancelled; and after
\* destroy() a query that ends either swaps its Index in, setting the
\* freshness marker and emitting update, or reports its error, a file write
\* that ends either replaces the snapshot or reports its error, and a
\* snapshot load of an existing file that ends emits update or error.
C9_InFlightSurvivesDestroy ==
    /\ [](\A c \in Cycles : cycle[c].st = "writing" => ENABLED writeFileDone(c))
    /\ [](fileLoad = "reading" => ENABLED loadCacheFromFile)
    /\ [][(reloadTimer /\ ~reloadTimer') => UNCHANGED << cycle, fileLoad >>]_vars
    /\ [][\A c \in Cycles :
            (~reloadTimer /\ QueryEnds(c)) =>
                \/ /\ lastUpdate' = c
                   /\ emitted' = << "update" >>
                   /\ IsIndexOf(data', cycle[c].rows, options)
                \/ /\ emitted' = << "error" >>
                   /\ UNCHANGED << data, lastUpdate >>]_vars
    /\ [][\A c \in Cycles :
            (~reloadTimer /\ WriteEnds(c)) =>
                \/ file' = cycle[c].json
                \/ emitted' = << "error" >>]_vars
    /\ [][(~reloadTimer /\ FileLoadEnds /\ file.kind # "absent") =>
            \/ emitted' = << "error" >>
            \/ emitted' = << "update" >> /\ lastUpdate' = FileTask
            \/ emitted' = << "update", "error" >> /\ lastUpdate' = FileTask]_vars

\* A refresh cycle swapped its Index in after the timer was cancelled.
C9_Witness ==
    /\ ~reloadTimer
    /\ emitted = << "update" >>
    /\ lastUpdate \in Cycles
    /\ data # << >>

\* C10: when the snapshot file is unparsable or structurally invalid, the
\* snapshot load emits exactly one error and nothing else, and makes no
\* swap: the visible Index, the freshness marker and readiness stay as they
\* were.
C10_InvalidSnapshotOnlyReportsError ==
    [][(FileLoadEnds /\ InvalidSnapshot(file))
          => /\ emitted' = << "error" >>
             /\ UNCHANGED << data, lastUpdate, ready >>]_vars

\* C11: with persistence enabled and no snapshot file, the end of the
\* snapshot load is silent: it emits nothing, makes no swap, leaves the
\* freshness marker and readiness as they were, rejects no promise and
\* changes neither the file, the timer nor any refresh cycle; without
\* persistence no snapshot load is ever in flight.
C11_MissingSnapshotIsSilent ==
    /\ [](~options.shouldSaveToFile => fileLoad = "off")
    /\ [][(FileLoadEnds /\ file.kind = "absent") =>
            /\ emitted' = << >>
            /\ fileLoad' = "missing"
            /\ UNCHANGED << data, lastUpdate, ready, rejected, file,
                            reloadTimer, cycle >>]_vars

\* The snapshot load has just ended on a missing file, before any swap.
C11_Witness ==
    /\ options.shouldSaveToFile
    /\ fileLoad = "missing"
    /\ emitted = << >>
    /\ lastUpdate = 0
    /\ ~ready
    /\ cycle[1].st = "query"

\* C12: no failure of a refresh cycle or of the snapshot load escapes its
\* task: whether or not a listener for 'error' is attached, the promise of
\* loadFromDatabaseAndSaveToFile and of loadCacheFromFile is never rejected.
C12_NoFailureEscapes ==
    ~rejected

\* The step evaluates new MySqlCache(options).
Constructs == constructed = "no" /\ constructed' # "no"

\* A required option is not given, or is given as null or undefined.
RequiredMissing(given) ==
    \/ given.sql \in {"unset", "null"}
    \/ given.mysqlQueryable \in {"unset", "null"}

\* C13: the constructor throws, before startCache, when sql or
\* mysqlQueryable is missing after the defaults are applied: no query is
\* issued, no snapshot read started, no timer armed; when both are present
\* it does not throw, issues the first query and arms the timer.
C13_FailsFastOnMissingRequired ==
    [][Constructs =>
          IF RequiredMissing(options)
              THEN /\ constructed' = "threw"
                   /\ ~reloadTimer'
                   /\ fileLoad' = "off"
                   /\ \A c \in Cycles : cycle'[c].st = "idle"
              ELSE /\ constructed' = "yes"
                   /\ reloadTimer'
                   /\ cycle'[1].st = "query"]_vars

\* The step is a read (it is the only kind of step that sets returned).
Reads == returned' # returned

\* C14: a read changes nothing but its result and does not throw; for a key
\* absent from the visible Index getValues returns an empty sequence and
\* getFirstValue null; for a present key getValues returns the sequence of
\* all its records, in order, and getFirstValue the first of them (null
\* when the key holds none).
C14_LookupResults ==
    [][Reads =>
          /\ UNCHANGED << data, lastUpdate, ready, file, cycle, fileLoad, reloadTimer >>
          /\ returned'.op \in {"getValues", "getFirstValue"} => ~returned'.threw
          /\ returned'.op = "getValues" =>
                /\ returned'.kind = "array"
                /\ returned'.items =
                      [i \in 1..Len(ValuesOf(data, returned'.key)) |->
                          Plain(ValuesOf(data, returned'.key)[i])]
          /\ returned'.op = "getFirstValue" =>
                IF ValuesOf(data, returned'.key) = << >>
                    THEN returned'.kind = "null"
                    ELSE /\ returned'.kind = "object"
                         /\ returned'.items =
                               << Plain(ValuesOf(data, returned'.key)[1]) >>]_vars

\* C15: with persistence, a cycle that swaps its Index in starts a file
\* write in the same step, and the JSON it writes is that of the Index built
\* from this cycle's own query result, whatever else was swapped in
\* meanwhile; without persistence no cycle ever writes the file and no
\* snapshot load is ever started.
C15_SnapshotIsOwnIndex ==
    /\ [](~options.shouldSaveToFile =>
            /\ fileLoad = "off"
            /\ file = NoFile
            /\ \A c \in Cycles : cycle[c].st # "writing")
    /\ [][\A c \in Cycles :
            (/\ options.shouldSaveToFile
             /\ QueryEnds(c)
             /\ ~MapperThrows(cycle[c].rows, options)
             /\ \E i \in 1..Len(emitted') : emitted'[i] = "update") =>
                /\ cycle'[c].st = "writing"
                /\ cycle'[c].json = JsonStringify(BuildCacheMap(cycle[c].rows, options))]_vars

\* C16: a failing file write of cycle c emits exactly one error and changes
\* neither the visible Index, the freshness marker nor readiness; readiness
\* is already resolved (the update of the cycle's swap was emitted), and
\* when the last swap was this cycle's the visible Index is still the one
\* the cycle serialized.  A failing serialization happens in the step of the
\* swap: the cycle's Index is swapped in, update is emitted, then one error.
C16_WriteFailureKeepsSwap ==
    [][\A c \in Cycles :
          /\ (WriteEnds(c) /\ \E i \in 1..Len(emitted') : emitted'[i] = "error") =>
                /\ emitted' = << "error" >>
                /\ UNCHANGED << data, lastUpdate, ready, file >>
                /\ ready
                /\ lastUpdate # 0
                /\ lastUpdate = c => JsonStringify(data') = cycle[c].json
          /\ (QueryEnds(c) /\ lastUpdate' = c /\ cycle'[c].st = "done"
                /\ options.shouldSaveToFile) =>
                /\ emitted' = << "update", "error" >>
                /\ ready'
                /\ IsIndexOf(data', cycle[c].rows, options)]_vars

\* The first cycle swapped a non-empty Index in and its file write failed,
\* nothing else having run: the Index is still visible.
C16_Witness ==
    /\ options.shouldSaveToFile
    /\ fileLoad = "missing"
    /\ cycle[1].st = "done"
    /\ \A c \in Cycles \ { 1 } : cycle[c].st = "idle"
    /\ emitted = << "error" >>
    /\ lastUpdate = 1
    /\ ready
    /\ data # << >>

\* The step emits the event.
Emits(event) == \E i \in 1..Len(emitted') : emitted'[i] = event

\* C17: a step swaps the visible Index (sets the freshness marker) exactly
\* when it emits update, and it emits update at most once; a step that ends
\* a refresh cycle or the snapshot load with an error emits that one error
\* and no update.
C17_UpdateIffSwap ==
    [][/\ Emits("update") <=> lastUpdate' # lastUpdate
       /\ data' # data => Emits("update")
       /\ Emits("update") => ready'
       /\ Cardinality({ i \in 1..Len(emitted') : emitted'[i] = "update" }) <= 1
       /\ (Emits("error") /\ (FileLoadEnds \/ \E c \in Cycles : QueryEnds(c) \/ WriteEnds(c)))
             => emitted' = << "error" >>]_vars

\* C18: the snapshot load runs once, from startup: once ended it is never
\* in flight again, and the Index is swapped to snapshot content only by the
\* step that ends it.  The timer staying armed, a visible Index that came
\* from the snapshot is eventually replaced by a database-built one, and
\* after that the visible Index is never snapshot content again.
C18_SnapshotIsInterim ==
    /\ [][/\ fileLoad # "reading" => fileLoad' = fileLoad
          /\ (lastUpdate' = FileTask /\ << data', lastUpdate', emitted' >> # << data, lastUpdate, emitted >>
                /\ Emits("update")) => FileLoadEnds
          /\ (fileLoad # "reading" /\ lastUpdate \in Cycles) => lastUpdate' \in Cycles]_vars
    /\ [](lastUpdate = FileTask => fileLoad \in {"loaded", "loadedThenFailed"})
    /\ []reloadTimer
    /\ (lastUpdate = FileTask) ~> (lastUpdate \in Cycles)

\* A database-built Index has replaced the snapshot content that was
\* visible before it.
C18_Witness ==
    /\ reloadTimer
    /\ fileLoad = "loaded"
    /\ lastUpdate \in Cycles
    /\ data # << >>
    /\ ~MapHas(data, 1) \/ MapGet(data, 1).v # << OldRec >>

\* C19: a tick starts a cycle whether or not an earlier one is in flight,
\* and once the Index of cycle b is visible, the completion of a cycle a
\* whose query was issued before b's does not replace it.
C19_OlderNeverReplacesNewer ==
    /\ []((reloadTimer /\ \E c \in Cycles : cycle[c].st = "idle") => ENABLED TimerTick)
    /\ [][\A a, b \in Cycles :
            (a < b /\ lastUpdate = b /\ QueryEnds(a)) => data' = data]_vars

\* C20: a query that answers with zero rows, or with null, is a successful
\* swap: the visible Index becomes a new empty Index, the freshness marker
\* is set, update is emitted and readiness resolved and, with persistence,
\* the write of an empty snapshot is started; afterwards getAll() and
\* getValues(k) return empty sequences and getFirstValue(k) null.
C20_EmptyResultSwapsEmptyIndex ==
    [][\A c \in Cycles :
          (\/ loadFromDatabase(c) /\ cycle[c].rows = << >>
           \/ queryDatabaseNull(c)) =>
              /\ data' = << >>
              /\ lastUpdate' = c
              /\ emitted' = << "update" >>
              /\ ready'
              /\ IF options.shouldSaveToFile
                     THEN /\ cycle'[c].st = "writing"
                          /\ cycle'[c].json = File("pairs", << >>)
                     ELSE cycle'[c].st = "done"
              /\ ~getAll'.threw /\ getAll'.items = << >>
              /\ \A k \in ReadKeys :
                    /\ getValues(k)'.kind = "array" /\ getValues(k)'.items = << >>
                    /\ getFirstValue(k)'.kind = "null"]_vars

====
